---- MODULE Spec2Model ----
(***************************************************************************)
(* Model of src/app.py: the symbol normalisation at the head of            *)
(* StockAnalyzer.get_stock_data, StockAnalyzer.process_stock_data, and the *)
(* request pipeline of main() (key statistics, moving averages, RSI, news  *)
(* and chat).                                                              *)
(*                                                                         *)
(* Python strings are sequences of one-character strings.                  *)
(***************************************************************************)
EXTENDS Integers, Sequences, FiniteSets, TLC

\* ------------------------------------------------------------------ bounds
MaxSymLen == 6

MaxBars == 201

MaxValBars == 3

\* ------------------------------------------------------- symbol handling
Alphabet == {".", "N", "S", "B", "O", "A"}

Markets == {"Indian Stocks", "US Stocks"}

NS == <<".", "N", "S">>

BO == <<".", "B", "O">>

Symbols == UNION {[1..n -> Alphabet] : n \in 0..MaxSymLen}

\* str.endswith(suffix)
endswith(s, suffix) ==
    /\ Len(s) >= Len(suffix)
    /\ SubSeq(s, Len(s) - Len(suffix) + 1, Len(s)) = suffix

\* str.replace(old, ''): every non-overlapping occurrence of old, scanning
\* from the left, is removed in a single pass.
RECURSIVE replace(_, _)
replace(s, old) ==
    IF Len(s) < Len(old) THEN s
    ELSE IF SubSeq(s, 1, Len(old)) = old
         THEN replace(SubSeq(s, Len(old) + 1, Len(s)), old)
         ELSE <<Head(s)>> \o replace(Tail(s), old)

\* A plausible slip: only the NSE suffix is recognised as already present.
TickerOnlyNS(symbol, market) ==
    IF market = "Indian Stocks"
    THEN IF ~endswith(symbol, NS) THEN symbol \o NS ELSE symbol
    ELSE replace(replace(symbol, NS), BO)

\* The ticker computed at the start of get_stock_data.
Ticker(symbol, market) ==
    IF market = "Indian Stocks"
    THEN IF ~(endswith(symbol, NS) \/ endswith(symbol, BO))
         THEN symbol \o NS
         ELSE symbol
    ELSE replace(replace(symbol, NS), BO)

\* ------------------------------------------------------ float arithmetic
\* A binary64 value is a non-negative rational n/d, an infinity or NaN.  The
\* closes of the model are integers, so every sum is exact; the sign of an
\* infinity or of a zero does not change any value computed below.
Num(n, d) == [k |-> "num", n |-> n, d |-> d]

NaN == [k |-> "nan", n |-> 0, d |-> 1]

Inf == [k |-> "inf", n |-> 0, d |-> 1]

\* a / b for a, b finite or NaN, b >= 0 (numpy: x/0 is inf, 0/0 is NaN)
FDiv(a, b) ==
    IF a.k = "nan" \/ b.k = "nan" THEN NaN
    ELSE IF b.n = 0 THEN (IF a.n = 0 THEN NaN ELSE Inf)
    ELSE Num(a.n * b.d, a.d * b.n)

\* 100 - (100 / (1 + rs))
RSIFromRS(rs) ==
    IF rs.k = "nan" THEN NaN
    ELSE IF rs.k = "inf" THEN Num(100, 1)
    ELSE Num(100 * (rs.d + rs.n) - 100 * rs.d, rs.d + rs.n)

FEq(a, b) ==
    /\ a.k = b.k
    /\ a.k = "num" => a.n * b.d = b.n * a.d

\* ------------------------------------------------------------ data frames
None == 0

RequiredColumns == {"Open", "High", "Low", "Close", "Volume"}

Shapes == {"flat", "rising", "falling", "zigzag"}

\* the i-th close (1-based) of a series of the given shape
CloseAt(shape, i) ==
    CASE shape = "flat"    -> 100
      [] shape = "rising"  -> 100 + i
      [] shape = "falling" -> 400 - i
      [] shape = "zigzag"  -> 100 + 7 * (i % 3)

\* A DataFrame: its index (timestamps), its column names and the data of the
\* columns the script reads or writes.  High, Low and Volume of a bar are
\* generated from its close.
Frame(index, columns, close) ==
    [index |-> index, columns |-> columns, Close |-> close,
     High |-> [i \in 1..Len(close) |-> close[i] + 2],
     Low |-> [i \in 1..Len(close) |-> close[i] - 3],
     Volume |-> [i \in 1..Len(close) |-> 1000 + 10 * close[i] + 5 * (i % 2)],
     MA50 |-> <<>>, MA200 |-> <<>>, RSI |-> <<>>]

\* DataFrame.empty
empty(f) == Len(f.index) = 0 \/ f.columns = {}

\* Series.max() and Series.min() of a non-empty column
MaxSeq(s) == CHOOSE x \in {s[i] : i \in DOMAIN s} : \A i \in DOMAIN s : x >= s[i]

MinSeq(s) == CHOOSE x \in {s[i] : i \in DOMAIN s} : \A i \in DOMAIN s : x =< s[i]

\* s[lo] + ... + s[hi], summed by halves
RECURSIVE SumSeq(_, _, _)
SumSeq(s, lo, hi) ==
    IF lo > hi THEN 0
    ELSE IF lo = hi THEN s[lo]
    ELSE LET mid == (lo + hi) \div 2
         IN  SumSeq(s, lo, mid) + SumSeq(s, mid + 1, hi)

\* Series.rolling(window=w).mean(): the mean of the last w values at each
\* position that has w values, NaN before.
rolling_mean(s, w) ==
    [i \in 1..Len(s) |->
        IF i >= w THEN Num(SumSeq(s, i - w + 1, i), w) ELSE NaN]

\* df['Close'].diff(), with the where(delta > 0, 0): the NaN of the first
\* position compares false and is replaced by 0 too.
gain_src(close) ==
    [i \in 1..Len(close) |->
        IF i > 1 /\ close[i] - close[i-1] > 0 THEN close[i] - close[i-1] ELSE 0]

\* -delta.where(delta < 0, 0)
loss_src(close) ==
    [i \in 1..Len(close) |->
        IF i > 1 /\ close[i] - close[i-1] < 0 THEN close[i-1] - close[i] ELSE 0]

\* lines 228-232
RSI(close) ==
    LET gain == rolling_mean(gain_src(close), 14)
        loss == rolling_mean(loss_src(close), 14)
    IN  [i \in 1..Len(close) |-> RSIFromRS(FDiv(gain[i], loss[i]))]

\* ------------------------------------------------------------ page output
Range(s) == {s[i] : i \in DOMAIN s}

\* A formatted number: the text printed is described by its prefix, whether
\* thousands separators are used, whether a sign is always printed, the
\* number of decimals, the number printed scaled by 10^decimals, and a suffix.
Text(prefix, grouped, plus, decimals, scaled, suffix) ==
    [prefix |-> prefix, grouped |-> grouped, plus |-> plus,
     decimals |-> decimals, scaled |-> scaled, suffix |-> suffix]

NoText == Text("", FALSE, FALSE, 0, 0, "")

Element(el, label, value, delta) ==
    [el |-> el, label |-> label, value |-> value, delta |-> delta]

Error(msg) == Element("error", msg, NoText, NoText)

Chart(name) == Element("chart", name, NoText, NoText)

Write(text) == Element("write", text, NoText, NoText)

Subheader(text) == Element("subheader", text, NoText, NoText)

Metric(label, value, delta) == Element("metric", label, value, delta)

\* The numbers with two decimals a float n/d (d > 0) can be printed as by
\* ':.2f'.  A value exactly halfway between two hundredths is printed as
\* either neighbour, depending on the binary representation of the float.
Hundredths(n, d) ==
    LET m == IF n < 0 THEN -n ELSE n
        q == (100 * m) \div d
        r == (100 * m) % d
        mags == IF 2 * r < d THEN {q}
                ELSE IF 2 * r > d THEN {q + 1}
                ELSE {q, q + 1}
    IN  {IF n < 0 THEN -c ELSE c : c \in mags}

\* process_stock_data: the value returned and the errors it shows
process_stock_data(d, h) ==
    IF d = None \/ empty(h[d])
    THEN [ret |-> None, shown |-> <<>>]
    ELSE IF RequiredColumns \subseteq h[d].columns
         THEN [ret |-> d, shown |-> <<>>]
         ELSE [ret |-> None,
               shown |-> <<Error("Missing required columns in data")>>]

get_currency_symbol(m) == IF m = "Indian Stocks" THEN "₹" ELSE "$"

\* format_currency: the texts the value may be printed as
format_currency(value, cur) ==
    {Text(cur, cur = "₹", FALSE, 2, c, "") : c \in Hundredths(value.n, value.d)}

VARIABLES
    pc,               \* position of the running script
    market,           \* the market selected in the sidebar
    selected_symbol,  \* the symbol selected or typed in the sidebar
    resubmitted,      \* TRUE once a computed ticker was entered as the symbol
    ticker,           \* the ticker get_stock_data computed
    heap,             \* the DataFrame objects, by reference
    df,               \* main's df: a reference into heap, or None
    currency_symbol,
    latest_price,
    news_articles,    \* None, or the number of articles returned
    user_question,    \* "" when no question was submitted
    page              \* the elements rendered so far, in order

vars == <<pc, market, selected_symbol, resubmitted, ticker, heap, df,
          currency_symbol, latest_price, news_articles, user_question, page>>

\* a local of main that was not assigned yet
Unset == -2

\* news_articles when get_stock_news returned None (a list is modelled by
\* the number of its articles)
NoneList == -1

\* the locals of main before the script has run
Locals ==
    /\ ticker = <<>>
    /\ heap = <<>>
    /\ df = None
    /\ currency_symbol = ""
    /\ latest_price = Unset
    /\ news_articles = Unset
    /\ page = <<>>

\* ------------------------------------------- specification: normaliser
InitNormalizer ==
    /\ pc = "input"
    /\ selected_symbol \in Symbols
    /\ market \in Markets
    /\ resubmitted = FALSE
    /\ user_question = ""
    /\ Locals

\* get_stock_data, lines 24-30
ComputeTicker ==
    /\ pc = "input"
    /\ ticker' = Ticker(selected_symbol, market)
    /\ pc' = "normalized"
    /\ UNCHANGED <<market, selected_symbol, resubmitted, heap, df,
                   currency_symbol, latest_price, news_articles,
                   user_question, page>>

\* get_stock_data is called again, with the same market, on the ticker it has
\* just computed: the canonical form is fed back as the symbol, as the custom
\* symbol input of lines 137-140 allows.
EnterTickerAsSymbol ==
    /\ pc = "normalized"
    /\ ~resubmitted
    /\ selected_symbol' = ticker
    /\ pc' = "input"
    /\ resubmitted' = TRUE
    /\ UNCHANGED <<market, ticker, heap, df, currency_symbol, latest_price,
                   news_articles, user_question, page>>

NextNormalizer == ComputeTicker \/ EnterTickerAsSymbol

SpecNormalizer == InitNormalizer /\ [][NextNormalizer]_vars

\* ------------------------------------------------ specification: main()
\* The symbols offered in the sidebar (lines 98-123), in the model's alphabet.
default_symbols == {<<"A", ".", "N", "S">>, <<"A">>}

Questions == {"", "question"}

\* What the market-data provider may return for one year of weekly bars: the
\* index ascends, the columns are the provider's, possibly without Volume.
ProviderColumns ==
    {RequiredColumns \cup {"Dividends", "Stock Splits"},
     (RequiredColumns \ {"Volume"}) \cup {"Dividends", "Stock Splits"}}

ProviderFrames ==
    {Frame([i \in 1..n |-> i], cols, [i \in 1..n |-> CloseAt(shape, i)]) :
        n \in 1..MaxBars, shape \in Shapes, cols \in ProviderColumns}

\* the handler of lines 307-309
ExceptionHandler ==
    <<Error("An error occurred"),
      Error("Please try another symbol or check if the stock exists")>>

Init ==
    /\ pc = "start"
    /\ selected_symbol \in default_symbols
    /\ market \in Markets
    /\ user_question \in Questions
    /\ resubmitted = FALSE
    /\ Locals

\* get_stock_data raises inside its try (lines 42-44): it returns (None, None)
\* and main returns at line 155.
FetchRaises ==
    /\ pc = "start"
    /\ ticker' = Ticker(selected_symbol, market)
    /\ page' = page \o <<Error("Error fetching data")>>
    /\ pc' = "done"
    /\ UNCHANGED <<market, selected_symbol, resubmitted, heap, df,
                   currency_symbol, latest_price, news_articles, user_question>>

\* the provider returns an empty frame (lines 36-38, 149-151)
FetchEmpty ==
    /\ pc = "start"
    /\ ticker' = Ticker(selected_symbol, market)
    /\ page' = page \o <<Error("No data found"), Error("Failed to fetch data")>>
    /\ pc' = "done"
    /\ UNCHANGED <<market, selected_symbol, resubmitted, heap, df,
                   currency_symbol, latest_price, news_articles, user_question>>

\* the provider returns bars (lines 33-40, 148-155)
FetchData ==
    /\ pc = "start"
    /\ ticker' = Ticker(selected_symbol, market)
    /\ \E f \in ProviderFrames : heap' = <<f>>
    /\ df' = 1
    /\ pc' = "fetched"
    /\ UNCHANGED <<market, selected_symbol, resubmitted, currency_symbol,
                   latest_price, news_articles, user_question, page>>

\* lines 157-160
ProcessStockData ==
    /\ pc = "fetched"
    /\ LET r == process_stock_data(df, heap) IN
          /\ df' = r.ret
          /\ page' = page \o r.shown
    /\ currency_symbol' = get_currency_symbol(market)
    /\ pc' = "processed"
    /\ UNCHANGED <<market, selected_symbol, resubmitted, ticker, heap,
                   latest_price, news_articles, user_question>>

\* lines 162, 304-305
UnableToFetch ==
    /\ pc = "processed"
    /\ df = None
    /\ page' = page \o <<Error("Unable to fetch data for the selected symbol")>>
    /\ pc' = "done"
    /\ UNCHANGED <<market, selected_symbol, resubmitted, ticker, heap, df,
                   currency_symbol, latest_price, news_articles, user_question>>

\* lines 162-196
PriceCharts ==
    /\ pc = "processed"
    /\ df # None
    /\ page' = page \o <<Subheader("Price Chart"), Chart("Candlestick"),
                         Chart("Trading Volume"), Subheader("Key Statistics")>>
    /\ pc' = "charts"
    /\ UNCHANGED <<market, selected_symbol, resubmitted, ticker, heap, df,
                   currency_symbol, latest_price, news_articles, user_question>>

\* lines 199-211 on a frame of one bar: iloc[-2] raises IndexError, which the
\* handler of lines 307-309 catches.
KeyStatisticsRaises ==
    /\ pc = "charts"
    /\ Len(heap[df].Close) < 2
    /\ latest_price' = heap[df].Close[Len(heap[df].Close)]
    /\ page' = page \o ExceptionHandler
    /\ pc' = "done"
    /\ UNCHANGED <<market, selected_symbol, resubmitted, ticker, heap, df,
                   currency_symbol, news_articles, user_question>>

\* lines 199-211
KeyStatistics ==
    /\ pc = "charts"
    /\ Len(heap[df].Close) >= 2
    /\ LET f == heap[df]
           n == Len(f.Close)
           price_change == f.Close[n] - f.Close[n-1]
       IN  /\ latest_price' = f.Close[n]
           /\ \E p \in format_currency(Num(f.Close[n], 1), currency_symbol),
                 pct \in Hundredths(price_change * 100, f.Close[n-1]),
                 hi \in format_currency(Num(MaxSeq(f.High), 1), currency_symbol),
                 lo \in format_currency(Num(MinSeq(f.Low), 1), currency_symbol) :
                 page' = page \o
                     <<Metric("Latest Price", p, Text("", FALSE, TRUE, 2, pct, "%")),
                       Metric("52-Week High", hi, NoText),
                       Metric("52-Week Low", lo, NoText),
                       Metric("Average Volume",
                              Text("", TRUE, FALSE, 0, SumSeq(f.Volume, 1, n) \div n, ""),
                              NoText)>>
    /\ pc' = "stats"
    /\ UNCHANGED <<market, selected_symbol, resubmitted, ticker, heap, df,
                   currency_symbol, news_articles, user_question>>

\* A plausible slip: the comparisons are strict.
MovingAverageMetricsStrict(f, cur) ==
    LET n == Len(f.index)
        m50 == IF n > 50
               THEN {<<Metric("50-Day MA", t, NoText)>> :
                        t \in format_currency(f.MA50[n], cur)}
               ELSE {<<>>}
        m200 == IF n > 200
                THEN {<<Metric("200-Day MA", t, NoText)>> :
                         t \in format_currency(f.MA200[n], cur)}
                ELSE {<<>>}
    IN  {a \o b : a \in m50, b \in m200}

\* The moving-average metrics shown for a frame with columns MA50 and MA200
\* (lines 218-223): in every result the metrics are in the order of the code.
MovingAverageMetrics(f, cur) ==
    LET n == Len(f.index)
        m50 == IF n >= 50
               THEN {<<Metric("50-Day MA", t, NoText)>> :
                        t \in format_currency(f.MA50[n], cur)}
               ELSE {<<>>}
        m200 == IF n >= 200
                THEN {<<Metric("200-Day MA", t, NoText)>> :
                         t \in format_currency(f.MA200[n], cur)}
                ELSE {<<>>}
    IN  {a \o b : a \in m50, b \in m200}

\* lines 214-223
MovingAverages ==
    /\ pc = "stats"
    /\ LET f == [heap[df] EXCEPT
                    !.MA50 = rolling_mean(heap[df].Close, 50),
                    !.MA200 = rolling_mean(heap[df].Close, 200),
                    !.columns = @ \cup {"MA50", "MA200"}]
       IN  /\ heap' = [heap EXCEPT ![df] = f]
           /\ \E ms \in MovingAverageMetrics(f, currency_symbol) :
                 page' = page \o <<Subheader("Moving Averages")>> \o ms
    /\ pc' = "averages"
    /\ UNCHANGED <<market, selected_symbol, resubmitted, ticker, df,
                   currency_symbol, latest_price, news_articles, user_question>>

\* lines 226-244
TechnicalIndicators ==
    /\ pc = "averages"
    /\ heap' = [heap EXCEPT ![df] =
                   [@ EXCEPT !.RSI = RSI(heap[df].Close),
                             !.columns = @ \cup {"RSI"}]]
    /\ page' = page \o <<Subheader("Technical Indicators"), Chart("RSI"),
                         Subheader("Latest News")>>
    /\ pc' = "indicators"
    /\ UNCHANGED <<market, selected_symbol, resubmitted, ticker, df,
                   currency_symbol, latest_price, news_articles, user_question>>

max_results == 5

\* get_stock_news raises inside its try (lines 58-60) and returns None; main
\* then takes the else branch of line 263.
NewsRaises ==
    /\ pc = "indicators"
    /\ news_articles' = NoneList
    /\ page' = page \o <<Error("Error fetching news"),
                         Write("No news articles found."),
                         Subheader("Chat with Stock Analysis")>>
    /\ pc' = "news"
    /\ UNCHANGED <<market, selected_symbol, resubmitted, ticker, heap, df,
                   currency_symbol, latest_price, user_question>>

\* lines 246-268 when the search returns a list
LatestNews ==
    /\ pc = "indicators"
    /\ \E k \in 0..max_results :
          /\ news_articles' = k
          /\ page' = page \o
                [i \in 1..k |-> Write("article")] \o
                (IF k = 0 THEN <<Write("No news articles found.")>> ELSE <<>>) \o
                <<Subheader("Chat with Stock Analysis")>>
    /\ pc' = "news"
    /\ UNCHANGED <<market, selected_symbol, resubmitted, ticker, heap, df,
                   currency_symbol, latest_price, user_question>>


\* line 270 with no question submitted: the script ends
NoQuestion ==
    /\ pc = "news"
    /\ user_question = ""
    /\ pc' = "done"
    /\ UNCHANGED <<market, selected_symbol, resubmitted, ticker, heap, df,
                   currency_symbol, latest_price, news_articles, user_question,
                   page>>

\* lines 270-283 with news_articles None: len(news_articles) raises TypeError
\* while the prompt is built, before the try of line 285; the handler of
\* lines 307-309 catches it.
PromptRaises ==
    /\ pc = "news"
    /\ user_question # ""
    /\ news_articles = NoneList
    /\ page' = page \o ExceptionHandler
    /\ pc' = "done"
    /\ UNCHANGED <<market, selected_symbol, resubmitted, ticker, heap, df,
                   currency_symbol, latest_price, news_articles, user_question>>

\* lines 270-300: the prompt is built and the completion succeeds
ChatAnswer ==
    /\ pc = "news"
    /\ user_question # ""
    /\ news_articles # NoneList
    /\ page' = page \o <<Write("response")>>
    /\ pc' = "done"
    /\ UNCHANGED <<market, selected_symbol, resubmitted, ticker, heap, df,
                   currency_symbol, latest_price, news_articles, user_question>>

\* lines 270-302: the prompt is built and the completion raises
CompletionRaises ==
    /\ pc = "news"
    /\ user_question # ""
    /\ news_articles # NoneList
    /\ page' = page \o <<Error("Error generating response")>>
    /\ pc' = "done"
    /\ UNCHANGED <<market, selected_symbol, resubmitted, ticker, heap, df,
                   currency_symbol, latest_price, news_articles, user_question>>

Next ==
    \/ FetchRaises
    \/ FetchEmpty
    \/ FetchData
    \/ ProcessStockData
    \/ UnableToFetch
    \/ PriceCharts
    \/ KeyStatisticsRaises
    \/ KeyStatistics
    \/ MovingAverages
    \/ TechnicalIndicators
    \/ NewsRaises
    \/ LatestNews
    \/ NoQuestion
    \/ PromptRaises
    \/ ChatAnswer
    \/ CompletionRaises

Spec == Init /\ [][Next]_vars

\* ------------------------------------- specification: process_stock_data
\* The call of lines 157-160 on any argument: None, or a frame whose bars come
\* in any order and whose columns are any subset of the required ones.
Timestamps == 1..MaxValBars

ValidatorIndexes ==
    {s \in UNION {[1..n -> Timestamps] : n \in 0..MaxValBars} :
        \A i, j \in DOMAIN s : i # j => s[i] # s[j]}

ValidatorFrames ==
    {Frame(idx, cols, [i \in 1..Len(idx) |-> CloseAt("rising", idx[i])]) :
        idx \in ValidatorIndexes, cols \in SUBSET RequiredColumns}

InitValidator ==
    /\ pc = "fetched"
    /\ selected_symbol \in default_symbols
    /\ market \in Markets
    /\ user_question = ""
    /\ resubmitted = FALSE
    /\ heap \in {<<>>} \cup {<<f>> : f \in ValidatorFrames}
    /\ df = IF heap = <<>> THEN None ELSE 1
    /\ ticker = Ticker(selected_symbol, market)
    /\ currency_symbol = ""
    /\ latest_price = Unset
    /\ news_articles = Unset
    /\ page = <<>>

NextValidator == ProcessStockData

SpecValidator == InitValidator /\ [][NextValidator]_vars

\* ------------------------------------------------------------- claims

\* C1: normalisation is idempotent: normalising the ticker that a first
\* normalisation produced, under the same market, returns that ticker.
C1_Idempotent ==
    (resubmitted /\ pc = "normalized") => ticker = selected_symbol

\* C2: for US Stocks a symbol ending in '.NS' or '.BO' loses that suffix and
\* any other symbol is passed through character for character.
C2_ForeignStripOrPass ==
    (pc = "normalized" /\ market = "US Stocks") =>
        IF endswith(selected_symbol, NS) \/ endswith(selected_symbol, BO)
        THEN ticker = SubSeq(selected_symbol, 1, Len(selected_symbol) - 3)
        ELSE ticker = selected_symbol

\* C3: for Indian Stocks a symbol without a '.NS'/'.BO' ending becomes the
\* symbol followed by exactly one '.NS'; a symbol with such an ending is
\* returned unchanged; the empty symbol included.
C3_DomesticSuffix ==
    (pc = "normalized" /\ market = "Indian Stocks") =>
        IF endswith(selected_symbol, NS) \/ endswith(selected_symbol, BO)
        THEN ticker = selected_symbol
        ELSE /\ Len(ticker) = Len(selected_symbol) + 3
             /\ SubSeq(ticker, 1, Len(selected_symbol)) = selected_symbol
             /\ SubSeq(ticker, Len(selected_symbol) + 1, Len(ticker)) = NS

C3_Witness ==
    /\ pc = "normalized"
    /\ market = "Indian Stocks"
    /\ selected_symbol = <<>>
    /\ ticker = NS


\* Why process_stock_data has to reject its argument, if it has to.
RejectionKind(d, h) ==
    IF d = None \/ empty(h[d]) THEN "EmptySeries"
    ELSE IF ~(RequiredColumns \subseteq h[d].columns) THEN "MissingFields"
    ELSE "none"

ValidatorArguments ==
    {<<None, <<>> >>} \cup {<<1, <<f>> >> : f \in ValidatorFrames}

\* the argument of the call of process_stock_data that has returned
Argument == IF heap = <<>> THEN None ELSE 1

\* C4: an absent or zero-bar argument is rejected as EmptySeries, one lacking
\* a required column as MissingFields, and the caller can tell the two apart:
\* the value main receives for a rejected argument differs from the value it
\* receives for any argument rejected for the other reason.
C4_DistinctErrorKinds ==
    (pc = "processed" /\ RejectionKind(Argument, heap) # "none") =>
        /\ df = None
        /\ \A a \in ValidatorArguments :
              (/\ RejectionKind(a[1], a[2]) # "none"
               /\ RejectionKind(a[1], a[2]) # RejectionKind(Argument, heap))
              => process_stock_data(a[1], a[2]).ret # df

Ascending(s) == \A i, j \in DOMAIN s : i < j => s[i] < s[j]

\* C5: a non-empty frame with all required columns is accepted and returned
\* with its bars in strictly ascending timestamp order, whatever their order
\* in the argument.
C5_ReturnedAscending ==
    (pc = "processed" /\ RejectionKind(Argument, heap) = "none") =>
        /\ df # None
        /\ Ascending(heap[df].index)
        /\ Range(heap[df].index) = Range(heap[Argument].index)

Shown(label) == \E e \in Range(page) : e.el = "metric" /\ e.label = label

\* C6: with fewer than 2 bars the request is not aborted: latest price,
\* period high, period low and mean volume are rendered, the later sections
\* are rendered, and the handler of the whole pipeline is not entered.
C6_InsufficientHistoryNotFatal ==
    (pc = "done" /\ df # None /\ Len(heap[df].index) < 2) =>
        /\ Shown("Latest Price")
        /\ Shown("52-Week High")
        /\ Shown("52-Week Low")
        /\ Shown("Average Volume")
        /\ Subheader("Moving Averages") \in Range(page)
        /\ Chart("RSI") \in Range(page)
        /\ Range(ExceptionHandler) \cap Range(page) = {}

MALabel(w) == IF w = 50 THEN "50-Day MA" ELSE "200-Day MA"

\* the text is the mean of the last w closes printed as currency
IsMeanOfLast(text, close, w) ==
    LET n == Len(close)
        total == SumSeq(close, n - w + 1, n)
        err == text.scaled * w - 100 * total
    IN  /\ text.prefix = currency_symbol
        /\ text.decimals = 2
        /\ 2 * err =< w
        /\ -2 * err =< w

\* C7: once the moving averages are rendered, for each window w in {50, 200}
\* the w-window metric is shown if and only if the series has at least w
\* bars; the value shown is the mean of the last w closes (of all closes when
\* there are exactly w bars) printed with two decimals.
C7_MovingAverageShown ==
    Subheader("Moving Averages") \in Range(page) =>
        \A w \in {50, 200} :
            /\ Shown(MALabel(w)) <=> Len(heap[df].index) >= w
            /\ \A e \in Range(page) :
                  (e.el = "metric" /\ e.label = MALabel(w)) =>
                      IsMeanOfLast(e.value, heap[df].Close, w)

C7_Witness ==
    /\ pc = "averages"
    /\ Len(heap[df].index) = 200
    /\ Shown("200-Day MA")
    /\ Shown("50-Day MA")
    /\ \E i \in 1..199 : heap[df].Close[i] # heap[df].Close[i+1]

NonDecreasing(s) == \A i \in 1..(Len(s) - 1) : s[i] =< s[i+1]

\* C8: for every non-decreasing series of 15 closes, equal consecutive closes
\* included, the RSI at the first defined position (index 13, the 14th bar)
\* is 100, never NaN.
C8_RSISaturates ==
    (/\ pc \in {"indicators", "news", "done"}
     /\ df # None
     /\ "RSI" \in heap[df].columns
     /\ Len(heap[df].Close) = 15
     /\ NonDecreasing(heap[df].Close))
    => FEq(heap[df].RSI[14], Num(100, 1))

\* C9: the indicator computations never change the frame the validator
\* returned: its columns and values stay as they were.
C9_SeriesNotMutated ==
    [][(pc \in {"processed", "charts", "stats", "averages", "indicators", "news"}
        /\ df # None)
       => heap'[df] = heap[df]]_vars

\* C10: when the news fetch fails and a question was submitted, the chat
\* branch still reaches the language model (its answer or its own error is
\* shown) and the handler of the whole pipeline is not entered.
C10_NewsFailureIsLocal ==
    (pc = "done" /\ news_articles = NoneList /\ user_question # "") =>
        /\ \/ Write("response") \in Range(page)
           \/ Error("Error generating response") \in Range(page)
        /\ Range(ExceptionHandler) \cap Range(page) = {}

====
